---- MODULE Spec2Model ----
(***************************************************************************)
(* A model of src/evaluators/habitat_sim_evaluator.py: the class           *)
(* HabitatSimEvaluator with its configuration overlay                      *)
(* (overwrite_simulator_config), its two metric reducers                   *)
(* (compute_avg_metrics, extract_metrics) and its three abstract           *)
(* operations (generate_video, generate_map, evaluate_and_get_maps).       *)
(*                                                                         *)
(* Every operation is one action.  An action records which operation ran   *)
(* (op), how it ended (err, returned) and what it returned, and it         *)
(* rewrites the objects the operation was handed exactly as the code does. *)
(*                                                                         *)
(* Python dicts are modelled as follows.                                   *)
(*  - dict_of_metrics, whose iteration order the code relies on, is a      *)
(*    sequence of [id, metrics] entries with pairwise distinct ids (the    *)
(*    insertion order of the dict);                                        *)
(*  - every other dict is a function whose DOMAIN is the dict's key set.   *)
(* Python's true division v / n is modelled by the exact rational          *)
(* [num |-> v, den |-> n]; two rationals are compared with RatEq.          *)
(***************************************************************************)
EXTENDS Integers, Sequences, FiniteSets, TLC

VARIABLES
    op,                  \* the operation that ran last ("none" after construction)
    err,                 \* the exception the last operation ended in, or "none"
    returned,            \* TRUE iff the last operation returned to its caller
    dict_of_metrics,     \* the metrics collection handed to the reducers
    metric_names,        \* the list of names handed to extract_metrics
    avg_metrics,         \* the value compute_avg_metrics returned
    new_dict_of_metrics, \* the value extract_metrics returned
    config,              \* the config object handed to overwrite_simulator_config
    modules_importable,  \* whether the imports of lines 44-51 could succeed when
                         \* overwrite_simulator_config was last called
    self,                \* the evaluator object: the fields __init__ stores
    args                 \* the arguments of the last abstract operation called

vars == <<op, err, returned, dict_of_metrics, metric_names, avg_metrics,
          new_dict_of_metrics, config, modules_importable, self, args>>

metricsVars == <<dict_of_metrics, metric_names, avg_metrics, new_dict_of_metrics>>
configVars == <<config, modules_importable>>
harnessVars == <<self, args>>

(***************************************************************************)
(* Bounds of the model.                                                    *)
(***************************************************************************)
MaxEpisodes == 2
MaxValue == 1
MaxNames == 2

\* A dict with no key.
EmptyDict == [k \in {} |-> 0]

\* The set of dicts with keys among K and values in V.
Dicts(K, V) == UNION {[D -> V] : D \in SUBSET K}

Range(s) == {s[i] : i \in DOMAIN s}

(***************************************************************************)
(* The metrics reducers.                                                   *)
(***************************************************************************)
MetricNames == {"spl", "success"}
MetricValues == 0..MaxValue

EpisodeMetrics == Dicts(MetricNames, MetricValues)

\* The identifiers of a collection of n episodes, in the dict's insertion order.
\* The code never compares or inspects an identifier, so the episodes are named
\* by their place in that order.
IdsInOrder(n) == [i \in 1..n |-> i]

\* Dict[str, Dict[str, float]]: the collection of the episodes ids, in this
\* order, with the metrics ms.
MetricsCollection(ids, ms) ==
    [i \in DOMAIN ids |-> [id |-> ids[i], metrics |-> ms[i]]]

\* List[str]: the lists of at most MaxNames names (a name may repeat).
NameLists == UNION {[1..n -> MetricNames] : n \in 0..MaxNames}

Rat(n, d) == [num |-> n, den |-> d]
RatEq(a, b) == a.num * b.den = b.num * a.den

\* Lines 73-74 with a bug: agg_metrics[m] = v, the last episode's value replaces
\* the sum.
AddEpisodeOverwriting(agg, metrics) ==
    [m \in DOMAIN agg \cup DOMAIN metrics |->
        IF m \in DOMAIN metrics THEN metrics[m] ELSE agg[m]]

\* Lines 73-74: agg_metrics[m] += v for every item of one episode; a name not yet
\* in the defaultdict(float) starts from 0.0.
AddEpisode(agg, metrics) ==
    [m \in DOMAIN agg \cup DOMAIN metrics |->
        (IF m \in DOMAIN agg THEN agg[m] ELSE 0)
      + (IF m \in DOMAIN metrics THEN metrics[m] ELSE 0)]

\* Lines 71-74: the accumulation loop over the episodes, in the dict's order.
RECURSIVE Aggregate(_, _)
Aggregate(agg, episodes) ==
    IF Len(episodes) = 0 THEN agg
    ELSE Aggregate(AddEpisode(agg, Head(episodes).metrics), Tail(episodes))

\* Line 75 with a bug: every sum is divided by the number of episodes that carry
\* the name, not by len(dict_of_metrics).
DivideByPresent(agg, d) ==
    [err |-> "none", returned |-> TRUE,
     value |-> [k \in DOMAIN agg |->
                   Rat(agg[k], Cardinality({i \in DOMAIN d : k \in DOMAIN d[i].metrics}))]]

\* Line 75 with a bug: len(dict_of_metrics) is divided by before the
\* comprehension, so that an empty collection raises.
DivideEagerly(agg, d) ==
    IF Len(d) = 0
    THEN [err |-> "ZeroDivisionError", returned |-> FALSE, value |-> EmptyDict]
    ELSE [err |-> "none", returned |-> TRUE,
          value |-> [k \in DOMAIN agg |-> Rat(agg[k], Len(d))]]

\* Line 75: {k: v/len(dict_of_metrics) for k, v in agg_metrics.items()}.  The
\* division is evaluated once per item of agg_metrics, so it raises only when
\* there is an item and the collection is empty.
Divide(agg, d) ==
    IF DOMAIN agg # {} /\ Len(d) = 0
    THEN [err |-> "ZeroDivisionError", returned |-> FALSE, value |-> EmptyDict]
    ELSE [err |-> "none", returned |-> TRUE,
          value |-> [k \in DOMAIN agg |-> Rat(agg[k], Len(d))]]

\* Lines 71-76.
ComputeAvgMetrics(d) == Divide(Aggregate(EmptyDict, d), d)

\* Lines 94-96 with a bug: the comprehension runs over the episode's own names.
ExtractAllOfEpisode(metrics, names) ==
    [err |-> "none", value |-> metrics]

\* Lines 94-96 with a bug: a missing name is defaulted (dict.get) to 0.
ExtractWithDefault(metrics, names) ==
    [err |-> "none",
     value |-> [m \in Range(names) |-> IF m \in DOMAIN metrics THEN metrics[m] ELSE 0]]

\* Lines 94-96: {metric_name: episode_metrics[metric_name] for metric_name in
\* metric_names}; the lookup of a name the episode lacks raises KeyError.
ExtractEpisode(metrics, names) ==
    IF \E i \in DOMAIN names : names[i] \notin DOMAIN metrics
    THEN [err |-> "KeyError", value |-> EmptyDict]
    ELSE [err |-> "none", value |-> [m \in Range(names) |-> metrics[m]]]

\* Lines 93-97: the loop over the episodes; new is new_dict_of_metrics so far.  An
\* exception leaves the function without a value: new is dropped.
RECURSIVE ExtractLoop(_, _, _)
ExtractLoop(new, episodes, names) ==
    IF Len(episodes) = 0
    THEN [err |-> "none", returned |-> TRUE, value |-> new]
    ELSE LET e == Head(episodes)
             r == ExtractEpisode(e.metrics, names)
         IN IF r.err # "none"
            THEN [err |-> r.err, returned |-> FALSE, value |-> <<>>]
            ELSE ExtractLoop(Append(new, [id |-> e.id, metrics |-> r.value]),
                             Tail(episodes), names)

\* Lines 92-97.
ExtractMetrics(d, names) == ExtractLoop(<<>>, d, names)

\* What extract_metrics leaves in its argument dict_of_metrics: the code only
\* reads it (lines 93-96).
InputAfterExtract(d) == d

\* A call of compute_avg_metrics(dict_of_metrics).
compute_avg_metrics ==
    LET r == ComputeAvgMetrics(dict_of_metrics)
    IN /\ op' = "compute_avg_metrics"
       /\ err' = r.err
       /\ returned' = r.returned
       /\ avg_metrics' = r.value
       /\ UNCHANGED <<dict_of_metrics, metric_names, new_dict_of_metrics>>
       /\ UNCHANGED <<configVars, harnessVars>>

\* A call of extract_metrics(dict_of_metrics, names).
extract_metrics ==
    \E names \in NameLists :
        LET r == ExtractMetrics(dict_of_metrics, names)
        IN /\ op' = "extract_metrics"
           /\ err' = r.err
           /\ returned' = r.returned
           /\ metric_names' = names
           /\ new_dict_of_metrics' = r.value
           /\ dict_of_metrics' = InputAfterExtract(dict_of_metrics)
           /\ UNCHANGED avg_metrics
           /\ UNCHANGED <<configVars, harnessVars>>

(***************************************************************************)
(* The configuration overlay.                                              *)
(*                                                                         *)
(* config.SIMULATOR and config.PHYSICS_SIMULATOR are dicts from top-level  *)
(* keys to values.  A value is a scalar or a nested section (an instance   *)
(* of Config), and a field of a nested section is again a scalar or a      *)
(* section, one level deeper.  kind says which; a scalar carries val, a    *)
(* section carries its dict (fields, and sub one level deeper).            *)
(* PHYSICS_SIMULATOR is iterated in the order of KeyOrder.  A config is a   *)
(* tree, as a config loader builds it: no section object sits at two       *)
(* places of it before the first call.  The code copies a nested value by  *)
(* reference (lines 40, 42) and never writes into a value it copied, so    *)
(* values are modelled by their contents.                                  *)
(***************************************************************************)
MaxScalar == 2

ConfigKeys == {"A", "B"}
KeyOrder == <<"A", "B">>
Fields == {"x", "y"}
Scalars == 1..MaxScalar
LeafValues == {1, 2}

Leaf(v) == [kind |-> "scalar", val |-> v, sub |-> EmptyDict]
SubSection(g) == [kind |-> "section", val |-> 0, sub |-> g]
SubDicts == {[k \in {"p"} |-> 1], [k \in {"q"} |-> 1]}
FieldValues == {Leaf(v) : v \in LeafValues} \cup {SubSection(g) : g \in SubDicts}

Scalar(v) == [kind |-> "scalar", val |-> v, fields |-> EmptyDict]
Section(f) == [kind |-> "section", val |-> 0, fields |-> f]
ConfigValues ==
    {Scalar(v) : v \in Scalars} \cup {Section(f) : f \in Dicts(Fields, FieldValues)}

\* The contents a SIMULATOR or PHYSICS_SIMULATOR section can have.
ConfigSections == Dicts(ConfigKeys, ConfigValues)

\* d[k] = v on a dict: k is added when d lacks it.
Put(d, k, v) == [j \in DOMAIN d \cup {k} |-> IF j = k THEN v ELSE d[j]]

\* Line 42 with a bug: only a key SIMULATOR already has is assigned.
AssignValueIfPresent(cfg, k) ==
    IF k \in DOMAIN cfg.SIMULATOR
    THEN [err |-> "none",
          config |-> [cfg EXCEPT !.SIMULATOR = Put(@, k, cfg.PHYSICS_SIMULATOR[k])]]
    ELSE [err |-> "none", config |-> cfg]

\* Line 42 with a bug: the two sides of the assignment are swapped.
AssignValueSwapped(cfg, k) ==
    IF k \in DOMAIN cfg.SIMULATOR
    THEN [err |-> "none",
          config |-> [cfg EXCEPT !.PHYSICS_SIMULATOR = Put(@, k, cfg.SIMULATOR[k])]]
    ELSE [err |-> "KeyError", config |-> cfg]

\* Line 42: config.SIMULATOR[k] = config.PHYSICS_SIMULATOR[k].
AssignValue(cfg, k) ==
    [err |-> "none",
     config |-> [cfg EXCEPT !.SIMULATOR = Put(@, k, cfg.PHYSICS_SIMULATOR[k])]]

\* Lines 39-40 with a bug: a field that is a section on both sides is merged
\* key by key, one level deeper.
AssignFieldsRecursively(cfg, k) ==
    LET sim == cfg.SIMULATOR
        new == cfg.PHYSICS_SIMULATOR[k].fields
        Deep(f) == IF /\ f \in DOMAIN sim[k].fields
                      /\ sim[k].fields[f].kind = "section"
                      /\ new[f].kind = "section"
                   THEN SubSection([j \in DOMAIN sim[k].fields[f].sub
                                          \cup DOMAIN new[f].sub |->
                                       IF j \in DOMAIN new[f].sub
                                       THEN new[f].sub[j]
                                       ELSE sim[k].fields[f].sub[j]])
                   ELSE new[f]
    IN IF DOMAIN new = {} THEN [err |-> "none", config |-> cfg]
       ELSE IF k \notin DOMAIN sim THEN [err |-> "KeyError", config |-> cfg]
       ELSE IF sim[k].kind # "section" THEN [err |-> "TypeError", config |-> cfg]
       ELSE [err |-> "none",
             config |-> [cfg EXCEPT !.SIMULATOR[k].fields =
                            [f \in DOMAIN @ \cup DOMAIN new |->
                                IF f \in DOMAIN new THEN Deep(f) ELSE @[f]]]]

\* Lines 39-40: for inner_k in config.PHYSICS_SIMULATOR[k].keys():
\*     config.SIMULATOR[k][inner_k] = config.PHYSICS_SIMULATOR[k][inner_k]
\* The first assignment looks config.SIMULATOR[k] up: a KeyError when SIMULATOR
\* lacks k, and the item assignment on what it finds is a TypeError when that is
\* no section.  Either way the loop ends at its first field, so nothing of k is
\* merged; with no field at all the loop body never runs.
AssignFields(cfg, k) ==
    LET sim == cfg.SIMULATOR
        new == cfg.PHYSICS_SIMULATOR[k].fields
    IN IF DOMAIN new = {} THEN [err |-> "none", config |-> cfg]
       ELSE IF k \notin DOMAIN sim THEN [err |-> "KeyError", config |-> cfg]
       ELSE IF sim[k].kind # "section" THEN [err |-> "TypeError", config |-> cfg]
       ELSE [err |-> "none",
             config |-> [cfg EXCEPT !.SIMULATOR[k].fields =
                            [f \in DOMAIN @ \cup DOMAIN new |->
                                IF f \in DOMAIN new THEN new[f] ELSE @[f]]]]

\* Lines 38-42: the body of the loop for one key k of PHYSICS_SIMULATOR.
MergeKey(cfg, k) ==
    IF cfg.PHYSICS_SIMULATOR[k].kind = "section"
    THEN AssignFields(cfg, k)
    ELSE AssignValue(cfg, k)

\* Lines 37-42: the loop over config.PHYSICS_SIMULATOR.keys(), from the i-th key
\* of KeyOrder on; an exception ends it with the keys before it merged.
RECURSIVE MergeFrom(_, _)
MergeFrom(cfg, i) ==
    IF i > Len(KeyOrder) THEN [err |-> "none", config |-> cfg]
    ELSE IF KeyOrder[i] \notin DOMAIN cfg.PHYSICS_SIMULATOR THEN MergeFrom(cfg, i + 1)
    ELSE LET r == MergeKey(cfg, KeyOrder[i])
         IN IF r.err # "none" THEN r ELSE MergeFrom(r.config, i + 1)

\* Lines 37-56 with a bug: a failed import restores the SIMULATOR of before.
MergeRolledBack(cfg, importable) ==
    LET r == MergeFrom(cfg, 1)
    IN IF r.err # "none" THEN [err |-> r.err, returned |-> FALSE, config |-> r.config]
       ELSE IF ~importable
            THEN [err |-> "ImportError", returned |-> FALSE, config |-> cfg]
            ELSE [err |-> "none", returned |-> TRUE, config |-> r.config]

\* Lines 37-56: the merge, then the imports; an ImportError is printed and
\* raised again (lines 52-54), and nothing undoes the merge.
OverwriteSimulatorConfig(cfg, importable) ==
    LET r == MergeFrom(cfg, 1)
    IN IF r.err # "none" THEN [err |-> r.err, returned |-> FALSE, config |-> r.config]
       ELSE IF ~importable
            THEN [err |-> "ImportError", returned |-> FALSE, config |-> r.config]
            ELSE [err |-> "none", returned |-> TRUE, config |-> r.config]

\* A call of overwrite_simulator_config(config), in an environment where the
\* modules of lines 44-51 are importable or not.
overwrite_simulator_config ==
    \E importable \in BOOLEAN :
        LET r == OverwriteSimulatorConfig(config, importable)
        IN /\ op' = "overwrite_simulator_config"
           /\ err' = r.err
           /\ returned' = r.returned
           /\ config' = r.config
           /\ modules_importable' = importable
           /\ UNCHANGED <<metricsVars, harnessVars>>

(***************************************************************************)
(* The evaluator object and its abstract operations.                       *)
(***************************************************************************)
DefaultAgentSeed == 7
DefaultMapHeight == 200
DefaultEpisodeIdLast == "-1"
DefaultSceneIdLast == "data/scene_datasets/habitat-test-scenes/skokloster-castle.glb"
DefaultLogDir == "logs/"

ConfigPaths == {"configs/pointnav_rgbd.yaml", "configs/pointnav_depth.yaml"}
InputTypes == {"rgb", "depth", "rgbd"}
ModelPaths == {"data/checkpoints/v2/gibson-rgbd-best.pth", "data/checkpoints/v2/depth.pth"}
EpisodeIdArgs == {DefaultEpisodeIdLast, "3"}
SceneIdArgs == {DefaultSceneIdLast, "data/scene_datasets/habitat-test-scenes/apartment_1.glb"}
AgentSeeds == {DefaultAgentSeed, 0}
MapHeights == {DefaultMapHeight, 100}
LogDirs == {DefaultLogDir, "out/"}

\* Lines 26-29: what __init__ stores; config stands for get_config(config_paths).
Evaluators ==
    [config : ConfigPaths, input_type : InputTypes, model_path : ModelPaths,
     enable_physics : BOOLEAN]

\* The arguments of the abstract operations, those a call does not take left at
\* their defaults.
NoArgs ==
    [episode_id |-> DefaultEpisodeIdLast, scene_id |-> DefaultSceneIdLast,
     agent_seed |-> DefaultAgentSeed, map_height |-> DefaultMapHeight,
     log_dir |-> DefaultLogDir]

\* An abstract operation with a bug: the body is left empty (pass), so the call
\* returns None.
ReturnNone(s, a) ==
    [err |-> "none", returned |-> TRUE, self |-> s]

\* Line 109: raise NotImplementedError.
GenerateVideo(s, a) ==
    [err |-> "NotImplementedError", returned |-> FALSE, self |-> s]

\* Line 131: raise NotImplementedError.
GenerateMap(s, a) ==
    [err |-> "NotImplementedError", returned |-> FALSE, self |-> s]

\* Line 155: raise NotImplementedError.
EvaluateAndGetMaps(s, a) ==
    [err |-> "NotImplementedError", returned |-> FALSE, self |-> s]

\* A call of self.generate_video(episode_id, scene_id, agent_seed).
generate_video ==
    \E e \in EpisodeIdArgs, sc \in SceneIdArgs, seed \in AgentSeeds :
        LET a == [NoArgs EXCEPT !.episode_id = e, !.scene_id = sc, !.agent_seed = seed]
            r == GenerateVideo(self, a)
        IN /\ op' = "generate_video"
           /\ err' = r.err
           /\ returned' = r.returned
           /\ self' = r.self
           /\ args' = a
           /\ UNCHANGED <<metricsVars, configVars>>

\* A call of self.generate_map(episode_id, scene_id, agent_seed, map_height).
generate_map ==
    \E e \in EpisodeIdArgs, sc \in SceneIdArgs, seed \in AgentSeeds, h \in MapHeights :
        LET a == [NoArgs EXCEPT !.episode_id = e, !.scene_id = sc, !.agent_seed = seed,
                                !.map_height = h]
            r == GenerateMap(self, a)
        IN /\ op' = "generate_map"
           /\ err' = r.err
           /\ returned' = r.returned
           /\ self' = r.self
           /\ args' = a
           /\ UNCHANGED <<metricsVars, configVars>>

\* A call of self.evaluate_and_get_maps(episode_id_last, scene_id_last, log_dir,
\* map_height).
evaluate_and_get_maps ==
    \E e \in EpisodeIdArgs, sc \in SceneIdArgs, l \in LogDirs, h \in MapHeights :
        LET a == [NoArgs EXCEPT !.episode_id = e, !.scene_id = sc, !.log_dir = l,
                                !.map_height = h]
            r == EvaluateAndGetMaps(self, a)
        IN /\ op' = "evaluate_and_get_maps"
           /\ err' = r.err
           /\ returned' = r.returned
           /\ self' = r.self
           /\ args' = a
           /\ UNCHANGED <<metricsVars, configVars>>

(***************************************************************************)
(* The specifications: one per group of operations, each started from      *)
(* every input of its group within the bounds, the other groups at rest.   *)
(***************************************************************************)
NoCall == op = "none" /\ err = "none" /\ returned = FALSE

MetricsAtRest ==
    /\ dict_of_metrics = <<>>
    /\ metric_names = <<>>
    /\ avg_metrics = EmptyDict
    /\ new_dict_of_metrics = <<>>

ConfigAtRest ==
    /\ config = [SIMULATOR |-> EmptyDict, PHYSICS_SIMULATOR |-> EmptyDict]
    /\ modules_importable = TRUE

HarnessAtRest ==
    /\ self = [config |-> "configs/pointnav_rgbd.yaml", input_type |-> "rgbd",
               model_path |-> "data/checkpoints/v2/gibson-rgbd-best.pth",
               enable_physics |-> FALSE]
    /\ args = NoArgs

InitMetrics ==
    /\ NoCall
    /\ \E n \in 0..MaxEpisodes :
          \E ms \in [1..n -> EpisodeMetrics] :
              dict_of_metrics = MetricsCollection(IdsInOrder(n), ms)
    /\ metric_names = <<>>
    /\ avg_metrics = EmptyDict
    /\ new_dict_of_metrics = <<>>
    /\ ConfigAtRest
    /\ HarnessAtRest

InitConfig ==
    /\ NoCall
    /\ config \in [SIMULATOR : ConfigSections, PHYSICS_SIMULATOR : ConfigSections]
    /\ modules_importable = TRUE
    /\ MetricsAtRest
    /\ HarnessAtRest

\* Lines 18-29: the evaluator as __init__ leaves it.
InitHarness ==
    /\ NoCall
    /\ self \in Evaluators
    /\ args = NoArgs
    /\ MetricsAtRest
    /\ ConfigAtRest

NextMetrics == compute_avg_metrics \/ extract_metrics
NextConfig == overwrite_simulator_config
NextHarness == generate_video \/ generate_map \/ evaluate_and_get_maps

SpecMetrics == InitMetrics /\ [][NextMetrics]_vars
SpecConfig == InitConfig /\ [][NextConfig]_vars
SpecHarness == InitHarness /\ [][NextHarness]_vars

(***************************************************************************)
(* Properties of the metrics reducers, checked under SpecMetrics.          *)
(***************************************************************************)
\* The metric names that appear in at least one episode of d.
NamesOf(d) == UNION {DOMAIN d[i].metrics : i \in DOMAIN d}

\* The episodes of d that contain k.
EpisodesWith(d, k) == {i \in DOMAIN d : k \in DOMAIN d[i].metrics}

\* The sum of d[i].metrics[k] over the episodes i <= n that contain k.
RECURSIVE SumPresent(_, _, _)
SumPresent(d, k, n) ==
    IF n = 0 THEN 0
    ELSE SumPresent(d, k, n - 1)
         + (IF k \in DOMAIN d[n].metrics THEN d[n].metrics[k] ELSE 0)

AvgCalled == op = "compute_avg_metrics"
ExtractCalled == op = "extract_metrics"

\* C1, as stated: on a non-empty collection the average of every name k that
\* appears is the mean over exactly the episodes that contain k (the sum of the
\* present values over the number of episodes containing k), also when some
\* episodes lack k.
C1_MeanOverEpisodesWithKey ==
    (AvgCalled /\ Len(dict_of_metrics) > 0) =>
        /\ returned
        /\ \A k \in NamesOf(dict_of_metrics) :
              /\ k \in DOMAIN avg_metrics
              /\ RatEq(avg_metrics[k],
                       Rat(SumPresent(dict_of_metrics, k, Len(dict_of_metrics)),
                           Cardinality(EpisodesWith(dict_of_metrics, k))))

\* C1, amended: on a non-empty collection the average of every name k that appears
\* is the sum of the present values divided by the number of all episodes; it is
\* the mean over the episodes that contain k when every episode contains k.
C1_SumOverAllEpisodes ==
    (AvgCalled /\ Len(dict_of_metrics) > 0) =>
        /\ returned
        /\ \A k \in NamesOf(dict_of_metrics) :
              /\ k \in DOMAIN avg_metrics
              /\ RatEq(avg_metrics[k],
                       Rat(SumPresent(dict_of_metrics, k, Len(dict_of_metrics)),
                           Len(dict_of_metrics)))
              /\ EpisodesWith(dict_of_metrics, k) = DOMAIN dict_of_metrics =>
                    RatEq(avg_metrics[k],
                          Rat(SumPresent(dict_of_metrics, k, Len(dict_of_metrics)),
                              Cardinality(EpisodesWith(dict_of_metrics, k))))

\* C1's case: two episodes were averaged, both carry "spl" with the value 1, and
\* only the second carries "success", with the value 1: the result holds 2 over
\* 2 episodes for "spl" and 1 over 2 episodes for "success".
C1_Witness ==
    /\ AvgCalled /\ returned
    /\ Len(dict_of_metrics) = 2
    /\ EpisodesWith(dict_of_metrics, "spl") = {1, 2}
    /\ dict_of_metrics[1].metrics["spl"] = 1
    /\ dict_of_metrics[2].metrics["spl"] = 1
    /\ EpisodesWith(dict_of_metrics, "success") = {2}
    /\ dict_of_metrics[2].metrics["success"] = 1
    /\ avg_metrics["spl"] = Rat(2, 2)
    /\ avg_metrics["success"] = Rat(1, 2)

\* C2: on a non-empty collection of N episodes the result's key set is the union
\* of the episodes' metric names, and its value at k is the sum of the values of
\* the episodes that contain k, divided by N; no error is raised.
C2_SumDividedByEpisodeCount ==
    (AvgCalled /\ Len(dict_of_metrics) > 0) =>
        /\ err = "none" /\ returned
        /\ DOMAIN avg_metrics = NamesOf(dict_of_metrics)
        /\ \A k \in DOMAIN avg_metrics :
              RatEq(avg_metrics[k],
                    Rat(SumPresent(dict_of_metrics, k, Len(dict_of_metrics)),
                        Len(dict_of_metrics)))

\* C2's case: of two averaged episodes the second lacks "success" and the first
\* lacks "spl"; the result holds each value 1 over 2 episodes.
C2_Witness ==
    /\ AvgCalled /\ err = "none"
    /\ Len(dict_of_metrics) = 2
    /\ EpisodesWith(dict_of_metrics, "success") = {1}
    /\ EpisodesWith(dict_of_metrics, "spl") = {2}
    /\ dict_of_metrics[1].metrics["success"] = 1
    /\ dict_of_metrics[2].metrics["spl"] = 1
    /\ DOMAIN avg_metrics = {"spl", "success"}
    /\ avg_metrics["success"] = Rat(1, 2)

\* Every episode of d contains every name of the list.
AllNamesPresent(d, names) ==
    \A i \in DOMAIN d : \A j \in DOMAIN names : names[j] \in DOMAIN d[i].metrics

\* C3: when every episode contains every requested name, extract_metrics returns
\* a collection with the episode identifiers of the input (in its order), each
\* episode holding exactly the requested names with the input's values, and the
\* input is not modified.
C3_ExtractNarrows ==
    [][(ExtractCalled' /\ AllNamesPresent(dict_of_metrics, metric_names')) =>
          /\ err' = "none" /\ returned'
          /\ dict_of_metrics' = dict_of_metrics
          /\ Len(new_dict_of_metrics') = Len(dict_of_metrics)
          /\ \A i \in DOMAIN dict_of_metrics :
                /\ new_dict_of_metrics'[i].id = dict_of_metrics[i].id
                /\ DOMAIN new_dict_of_metrics'[i].metrics = Range(metric_names')
                /\ \A n \in Range(metric_names') :
                      new_dict_of_metrics'[i].metrics[n] = dict_of_metrics[i].metrics[n]
      ]_vars

\* C3's case: "spl" was extracted from two episodes that both carry "spl" and
\* "success", so each episode of the result is narrower than its input.
C3_Witness ==
    /\ ExtractCalled /\ returned
    /\ metric_names = <<"spl">>
    /\ Len(dict_of_metrics) = 2
    /\ \A i \in {1, 2} : DOMAIN dict_of_metrics[i].metrics = {"spl", "success"}
    /\ Len(new_dict_of_metrics) = 2
    /\ \A i \in {1, 2} : DOMAIN new_dict_of_metrics[i].metrics = {"spl"}

\* C4: when some episode lacks a requested name, extract_metrics ends in a
\* KeyError and returns nothing, not even the episodes extracted before the
\* offending one; no value is defaulted.
C4_MissingNameRaises ==
    (ExtractCalled /\ ~AllNamesPresent(dict_of_metrics, metric_names)) =>
        /\ err = "KeyError"
        /\ ~returned
        /\ new_dict_of_metrics = <<>>

\* C4's case: the first episode carries the requested name, the second lacks it,
\* and the call ended in the KeyError.
C4_Witness ==
    /\ ExtractCalled /\ err = "KeyError"
    /\ metric_names = <<"success">>
    /\ Len(dict_of_metrics) = 2
    /\ "success" \in DOMAIN dict_of_metrics[1].metrics
    /\ "success" \notin DOMAIN dict_of_metrics[2].metrics

\* C9, as stated: on an empty collection compute_avg_metrics ends in a division by
\* zero and returns no mapping.
C9_EmptyDividesByZero ==
    (AvgCalled /\ Len(dict_of_metrics) = 0) =>
        (err = "ZeroDivisionError" /\ ~returned)

\* C9, amended: on an empty collection compute_avg_metrics divides nothing (there
\* is no accumulated sum to divide) and returns the empty mapping.
C9_EmptyReturnsEmpty ==
    (AvgCalled /\ Len(dict_of_metrics) = 0) =>
        (err = "none" /\ returned /\ DOMAIN avg_metrics = {})

\* C9's case: the empty collection was averaged.
C9_Witness ==
    AvgCalled /\ Len(dict_of_metrics) = 0 /\ returned

(***************************************************************************)
(* Properties of the configuration overlay, checked under SpecConfig.      *)
(* config is the object before a call and config' the object after it.     *)
(***************************************************************************)
OverwriteCalled == op = "overwrite_simulator_config"

SIM == config.SIMULATOR
PHYS == config.PHYSICS_SIMULATOR

ScalarKeys(phys) == {k \in DOMAIN phys : phys[k].kind = "scalar"}
SectionKeys(phys) == {k \in DOMAIN phys : phys[k].kind = "section"}

\* after holds, at key k, every field of the nested section phys[k] with its
\* value (a field that is itself a section as a whole).
SectionMerged(before, phys, after, k) ==
    \A f \in DOMAIN phys[k].fields :
        /\ k \in DOMAIN after
        /\ after[k].kind = "section"
        /\ f \in DOMAIN after[k].fields
        /\ after[k].fields[f] = phys[k].fields[f]

\* A nested section before[k] is still one in after, with the fields of before[k]
\* and of phys[k] and no other, those that phys[k] does not name at their prior
\* value.
FieldsKept(before, phys, after, k) ==
    (k \in DOMAIN before /\ before[k].kind = "section") =>
        /\ k \in DOMAIN after
        /\ after[k].kind = "section"
        /\ DOMAIN after[k].fields = DOMAIN before[k].fields \cup DOMAIN phys[k].fields
        /\ \A f \in DOMAIN before[k].fields \ DOMAIN phys[k].fields :
              after[k].fields[f] = before[k].fields[f]

\* after is the one-level merge of phys into before.
OneLevelMerge(before, phys, after) ==
    /\ \A k \in ScalarKeys(phys) : k \in DOMAIN after /\ after[k] = phys[k]
    /\ \A k \in SectionKeys(phys) :
          SectionMerged(before, phys, after, k) /\ FieldsKept(before, phys, after, k)
    /\ \A k \in DOMAIN before \ DOMAIN phys : k \in DOMAIN after /\ after[k] = before[k]
    /\ DOMAIN after \subseteq DOMAIN before \cup DOMAIN phys

\* Every key at which phys holds a nested section with a field holds a nested
\* section in sim too.
SectionsMatch(sim, phys) ==
    \A k \in SectionKeys(phys) :
        DOMAIN phys[k].fields # {} => (k \in DOMAIN sim /\ sim[k].kind = "section")

\* C5, as stated: when SIMULATOR has every top-level key of PHYSICS_SIMULATOR,
\* SIMULATOR is after the call the one-level merge of the two sections.
C5_MergeWhenKeysPresent ==
    [][(OverwriteCalled' /\ DOMAIN PHYS \subseteq DOMAIN SIM) =>
          OneLevelMerge(SIM, PHYS, SIM')]_vars

\* C5, amended: when SIMULATOR has every top-level key of PHYSICS_SIMULATOR and
\* holds a nested section wherever PHYSICS_SIMULATOR holds a nested section with
\* at least one field, SIMULATOR is after the call the one-level merge of the two
\* sections.
C5_MergeWhenSectionsMatch ==
    [][(OverwriteCalled' /\ DOMAIN PHYS \subseteq DOMAIN SIM /\ SectionsMatch(SIM, PHYS)) =>
          OneLevelMerge(SIM, PHYS, SIM')]_vars

\* C5's case: the state after SIMULATOR {A: 1, B: {x: 1, y: 1}} was overlaid with
\* PHYSICS_SIMULATOR {A: 2, B: {x: 2}}: A and B.x replaced, B.y kept.
C5_Witness ==
    /\ OverwriteCalled /\ returned
    /\ PHYS = [k \in {"A", "B"} |->
                  IF k = "A" THEN Scalar(2) ELSE Section([f \in {"x"} |-> Leaf(2)])]
    /\ SIM = [k \in {"A", "B"} |->
                 IF k = "A" THEN Scalar(2)
                 ELSE Section([f \in {"x", "y"} |-> IF f = "x" THEN Leaf(2) ELSE Leaf(1)])]

\* C6: no call of overwrite_simulator_config changes PHYSICS_SIMULATOR, whether
\* it returns or ends in an error.
C6_PhysicsUnchanged ==
    [][OverwriteCalled' => PHYS' = PHYS]_vars

\* C6's case: a call that ended in an error after it had merged the key A, with
\* PHYSICS_SIMULATOR holding a scalar at A and a nested section at B.
C6_Witness ==
    /\ OverwriteCalled /\ err = "KeyError"
    /\ DOMAIN PHYS = {"A", "B"}
    /\ PHYS["A"].kind = "scalar"
    /\ PHYS["B"].kind = "section"
    /\ "A" \in DOMAIN SIM /\ SIM["A"] = PHYS["A"]

HoldsEveryKey(phys, after) ==
    \A k \in DOMAIN phys :
        /\ k \in DOMAIN after
        /\ phys[k].kind = "scalar" => after[k] = phys[k]
        /\ phys[k].kind = "section" =>
              /\ after[k].kind = "section"
              /\ \A f \in DOMAIN phys[k].fields :
                    /\ f \in DOMAIN after[k].fields
                    /\ after[k].fields[f] = phys[k].fields[f]

MergeCompleted(e) == e \in {"none", "ImportError"}

\* C10, as stated: whatever SIMULATOR holds, the merge step completes without an
\* error and SIMULATOR then holds every key of PHYSICS_SIMULATOR with its value.
C10_EveryKeyCopied ==
    [][OverwriteCalled' => (MergeCompleted(err') /\ HoldsEveryKey(PHYS, SIM'))]_vars

\* C10, amended: the merge step completes without an error exactly when
\* SIMULATOR holds a nested section wherever PHYSICS_SIMULATOR holds a nested
\* section with at least one field; SIMULATOR then holds every scalar key of
\* PHYSICS_SIMULATOR with its value, whether or not it had the key, and every
\* field of every nested section of PHYSICS_SIMULATOR.  Otherwise the call ends
\* in a KeyError (SIMULATOR lacks the key of such a section) or a TypeError
\* (SIMULATOR holds a scalar there).
C10_KeysCopiedWhenSectionsMatch ==
    [][OverwriteCalled' =>
          /\ MergeCompleted(err') <=> SectionsMatch(SIM, PHYS)
          /\ MergeCompleted(err') =>
                /\ \A k \in ScalarKeys(PHYS) : k \in DOMAIN SIM' /\ SIM'[k] = PHYS[k]
                /\ \A k \in SectionKeys(PHYS) : SectionMerged(SIM, PHYS, SIM', k)
          /\ err' = "KeyError" =>
                \E k \in SectionKeys(PHYS) : DOMAIN PHYS[k].fields # {} /\ k \notin DOMAIN SIM
          /\ err' = "TypeError" =>
                \E k \in SectionKeys(PHYS) :
                    DOMAIN PHYS[k].fields # {} /\ k \in DOMAIN SIM /\ SIM[k].kind = "scalar"
          /\ err' \in {"none", "ImportError", "KeyError", "TypeError"}
      ]_vars

\* C10's case: SIMULATOR, which holds nothing but the two keys of
\* PHYSICS_SIMULATOR {A: 1, B: {x: 1}} and nothing but x in B, after a call that
\* returned.
C10_Witness ==
    /\ OverwriteCalled /\ returned
    /\ PHYS = [k \in {"A", "B"} |->
                  IF k = "A" THEN Scalar(1) ELSE Section([f \in {"x"} |-> Leaf(1)])]
    /\ SIM = PHYS

(***************************************************************************)
(* Properties of the abstract operations, checked under SpecHarness.       *)
(***************************************************************************)
AbstractOperations == {"generate_video", "generate_map", "evaluate_and_get_maps"}

\* C7: every call of generate_video, generate_map or evaluate_and_get_maps on the
\* base class ends in NotImplementedError, returns nothing and leaves config,
\* input_type, model_path and enable_physics of the evaluator as they were.
C7_AbstractOperationsRaise ==
    [][op' \in AbstractOperations =>
          /\ err' = "NotImplementedError"
          /\ ~returned'
          /\ self' = self
      ]_vars

\* C7's case: evaluate_and_get_maps was called with its defaults
\* (episode_id_last "-1", log_dir "logs/", map_height 200) and raised.
C7_Witness ==
    /\ op = "evaluate_and_get_maps" /\ err = "NotImplementedError"
    /\ args.episode_id = DefaultEpisodeIdLast
    /\ args.log_dir = DefaultLogDir
    /\ args.map_height = DefaultMapHeight
    /\ args.agent_seed = DefaultAgentSeed

====
